---- MODULE Spec2Model ----
(***************************************************************************)
(* Content-integrity and relationship-graph engine of the collaborative    *)
(* worldbuilding API (collab/models.py): the immutability guard with its   *)
(* soft-delete escape valve, per-world tagging, and bidirectional links.   *)
(*                                                                         *)
(* The database tables are the variables rows, tags, contentTags, links,   *)
(* worlds and contrib.  The variable h is the model instance a caller      *)
(* holds (the Python object): its attributes can differ from the row they  *)
(* were loaded from, and Model.save writes every attribute back.           *)
(***************************************************************************)
EXTENDS Integers, Sequences, FiniteSets, TLC

(* ------------------------------ bounds -------------------------------- *)
\* Content rows a run inserts with create, over all kinds, and the largest
\* content id (ids are never reused).
MaxRows == 2
\* Content rows inserted while the immutability guard is explored (SpecGuard).
GuardRows == 1
\* Largest value of the clock behind timezone.now(); it starts at 1.
MaxTime == 3
\* Tag, ContentTag and ContentLink rows ever inserted (auto-increment ids).
MaxTagId == 2
MaxContentTagId == 3
MaxLinkId == 6
\* Concurrent requests.
MaxThreads == 2

(* ------------------------- program constants -------------------------- *)
MinTitleLen == 3
MaxTitleLen == 300
MinContentLen == 10
MaxTagNameLen == 100

(* ------------------------------ domains ------------------------------- *)
Kinds == {"page", "character", "story"}
Users == {1, 2}
WorldIds == {1, 2}
\* None for deleted_by / deleted_at.
NoUser == 0
NoTime == 0

\* Strings are sequences of one-character strings.
TFoo == <<"F", "o", "o">>
Tfoo == <<"f", "o", "o">>
TPadFoo == <<" ", "f", "o", "o">>
TBar == <<"B", "a", "r">>
TShort == <<"F", "o">>
BodyA == <<"b", "o", "d", "y", " ", "t", "e", "x", "t", "A">>
BodyShort == <<"b", "o", "d", "y">>

(* --------------------------- str.strip/lower -------------------------- *)
IsSpace(c) == c \in {" ", "\t"}

RECURSIVE LStrip(_)
LStrip(s) == IF s # <<>> /\ IsSpace(Head(s)) THEN LStrip(Tail(s)) ELSE s

RECURSIVE RStrip(_)
RStrip(s) ==
    IF s # <<>> /\ IsSpace(s[Len(s)]) THEN RStrip(SubSeq(s, 1, Len(s) - 1)) ELSE s

Strip(s) == RStrip(LStrip(s))

LowerChar(c) ==
    CASE c = "A" -> "a"
      [] c = "B" -> "b"
      [] c = "F" -> "f"
      [] c = "M" -> "m"
      [] OTHER -> c

Lower(s) == [i \in DOMAIN s |-> LowerChar(s[i])]

\* title__iexact
IExact(a, b) == Lower(a) = Lower(b)

(* ------------------------------ state --------------------------------- *)
VARIABLES
    now,          \* clock read by timezone.now()
    worlds,       \* ids of the World rows
    rows,         \* content table: [kind, id] -> row, for the rows that exist
    nextId,       \* per-kind auto-increment counter
    contrib,      \* UserProfile.contribution_count per user
    tags,         \* Tag rows
    contentTags,  \* ContentTag rows
    links,        \* ContentLink rows
    nextTagId, nextContentTagId, nextLinkId,
    h,            \* <<>> or <<instance>>: the model instance the caller holds
    last,         \* the last call and how it ended
    threads       \* the calls in progress in concurrent requests, per thread

vars == <<now, worlds, rows, nextId, contrib, tags, contentTags, links,
          nextTagId, nextContentTagId, nextLinkId, h, last, threads>>

dbContent == <<worlds, rows, nextId, contrib>>
dbTags == <<tags, contentTags, nextTagId, nextContentTagId>>
dbLinks == <<links, nextLinkId>>

Keys == [kind : Kinds, id : 1..MaxRows]

\* Rows inserted so far.
Inserted == {k \in Keys : k.id < nextId[k.kind]}

\* The persisted columns of an instance (everything but the primary key).
Fields(inst) ==
    [title |-> inst.title, content |-> inst.content, author |-> inst.author,
     world |-> inst.world, created_at |-> inst.created_at,
     is_deleted |-> inst.is_deleted, deleted_at |-> inst.deleted_at,
     deleted_by |-> inst.deleted_by]

Instance(k, row) ==
    [pk |-> k, title |-> row.title, content |-> row.content, author |-> row.author,
     world |-> row.world, created_at |-> row.created_at,
     is_deleted |-> row.is_deleted, deleted_at |-> row.deleted_at,
     deleted_by |-> row.deleted_by]

NonTriad(r) ==
    [title |-> r.title, content |-> r.content, author |-> r.author,
     world |-> r.world, created_at |-> r.created_at]

Triad(r) ==
    [is_deleted |-> r.is_deleted, deleted_at |-> r.deleted_at,
     deleted_by |-> r.deleted_by]

Persisted(k) == k \in DOMAIN rows

\* SoftDeleteManager.get_queryset (objects) and all_objects.
ActiveKeys == {k \in DOMAIN rows : ~rows[k].is_deleted}
AllKeys == DOMAIN rows

Held == h # <<>>
Self == h[1]

\* last: the call, how it ended (the exception raised, or "ok"), the value it
\* returned, and for soft_delete (and a restore right after it) the non-triad
\* columns the row had before the soft_delete.
Call(op, out, val, pre) == [op |-> op, out |-> out, val |-> val, pre |-> pre]
NoVal == 0
NoPre == <<>>

(* ------------------------- ContentBase.clean -------------------------- *)
\* objects.filter(world=, title__iexact=title.strip()).exclude(pk=).exists()
DuplicateTitle(kind, pk, title, world) ==
    \E k \in ActiveKeys :
        /\ k.kind = kind
        /\ k # pk
        /\ rows[k].world = world
        /\ IExact(rows[k].title, Strip(title))

\* The pk of an instance that was never saved.
NoPk == [kind |-> "none", id |-> 0]

CleanOk(kind, pk, title, content, world) ==
    /\ Strip(title) # <<>>
    /\ Len(Strip(title)) >= MinTitleLen
    /\ Len(Strip(title)) <= MaxTitleLen
    /\ Strip(content) # <<>>
    /\ Len(Strip(content)) >= MinContentLen
    /\ ~DuplicateTitle(kind, pk, title, world)

\* Model.clean_fields: CharField(max_length=300), ForeignKey to an existing World.
FieldsOk(title, world) ==
    /\ Len(title) <= MaxTitleLen
    /\ world \in worlds

\* Model.full_clean as ContentBase.save runs it: clean() raises
\* ContentValidationError (not a Django ValidationError) straight through
\* full_clean; the field errors are raised after clean() returned.
FullClean(kind, pk, title, content, world) ==
    IF ~CleanOk(kind, pk, title, content, world) THEN "ContentValidationError"
    ELSE IF ~FieldsOk(title, world) THEN "ValidationError"
    ELSE "ok"

(* --------------------- Manager.create -> ContentBase.save ------------- *)
NewRow(title, content, author, world) ==
    [title |-> title, content |-> content, author |-> author, world |-> world,
     created_at |-> now, is_deleted |-> FALSE, deleted_at |-> NoTime,
     deleted_by |-> NoUser]

Create(kind, title, content, author, world) ==
    LET out == FullClean(kind, NoPk, title, content, world)
        k == [kind |-> kind, id |-> nextId[kind]]
        row == NewRow(title, content, author, world)
    IN  /\ nextId[kind] <= MaxRows
        /\ IF out = "ok"
           THEN /\ rows' = [x \in DOMAIN rows \cup {k} |->
                                IF x = k THEN row ELSE rows[x]]
                /\ nextId' = [nextId EXCEPT ![kind] = @ + 1]
                /\ contrib' = [contrib EXCEPT ![author] = @ + 1]
                /\ h' = <<Instance(k, row)>>
                /\ last' = Call("create", "ok", k.id, <<Instance(k, row)>>)
           ELSE /\ UNCHANGED <<rows, nextId, contrib, h>>
                /\ last' = Call("create", out, NoVal, <<Instance(k, row)>>)
        /\ UNCHANGED <<now, threads, worlds, dbTags, dbLinks>>

(* ----------------- loading and editing the instance ------------------- *)
\* Model.all_objects.get(pk=...) / refresh_from_db(): a fresh instance.
Get(k) ==
    /\ k \in AllKeys
    /\ h' = <<Instance(k, rows[k])>>
    /\ last' = Call("get", "ok", NoVal, NoPre)
    /\ UNCHANGED <<now, threads, dbContent, dbTags, dbLinks>>

\* instance.<field> = value
SetAttr(field, value) ==
    /\ Held
    /\ Self[field] # value
    /\ h' = <<[Self EXCEPT ![field] = value]>>
    /\ last' = Call("setattr", "ok", NoVal, NoPre)
    /\ UNCHANGED <<now, threads, dbContent, dbTags, dbLinks>>

(* ------------------- ImmutableModelMixin.save ------------------------- *)
TriadDiffers(inst, row) ==
    \/ inst.is_deleted # row.is_deleted
    \/ inst.deleted_at # row.deleted_at
    \/ inst.deleted_by # row.deleted_by

\* Mutant of ModelSave: the forced update falls back to an INSERT.
ModelSave_Upsert(inst, force) ==
    [out |-> "ok",
     rows |-> [x \in DOMAIN rows \cup {inst.pk} |->
                  IF x = inst.pk THEN Fields(inst) ELSE rows[x]]]

\* Model.save of an instance that has a pk: an UPDATE of every column.  When no
\* row matches, a forced update raises DatabaseError and a plain save INSERTs.
ModelSave(inst, force) ==
    IF Persisted(inst.pk)
    THEN [out |-> "ok", rows |-> [rows EXCEPT ![inst.pk] = Fields(inst)]]
    ELSE IF force
    THEN [out |-> "DatabaseError", rows |-> rows]
    ELSE [out |-> "ok",
          rows |-> [x \in DOMAIN rows \cup {inst.pk} |->
                       IF x = inst.pk THEN Fields(inst) ELSE rows[x]]]

Raised(out) == [out |-> out, rows |-> rows]

\* Mutant of GuardedSave: the guard is gone, every save reaches Model.save.
GuardedSave_NoGuard(inst, force) == ModelSave(inst, force)

\* ImmutableModelMixin.save(force_update=force) of an instance that has a pk.
GuardedSave(inst, force) ==
    IF ~force
    THEN IF Persisted(inst.pk) /\ TriadDiffers(inst, rows[inst.pk])
         THEN ModelSave(inst, FALSE)
         ELSE Raised("ImmutabilityViolationError")
    ELSE ModelSave(inst, TRUE)

\* ContentBase.save(force_update=force) on the held, already saved instance:
\* full_clean first, then the guard.
ContentSave(inst, force) ==
    LET valid == FullClean(inst.pk.kind, inst.pk, inst.title, inst.content,
                           inst.world)
    IN  IF valid # "ok" THEN Raised(valid) ELSE GuardedSave(inst, force)

Save(force) ==
    /\ Held
    /\ LET res == ContentSave(Self, force)
       IN  /\ rows' = res.rows
           /\ last' = Call(IF force THEN "save_force" ELSE "save", res.out,
                           NoVal, NoPre)
    /\ UNCHANGED <<now, threads, worlds, nextId, contrib, dbTags, dbLinks, h>>

(* ------------- SoftDeleteMixin.soft_delete / restore ------------------ *)
SoftDeleted(inst, user) ==
    [inst EXCEPT !.is_deleted = TRUE, !.deleted_at = now, !.deleted_by = user]

Restored(inst) ==
    [inst EXCEPT !.is_deleted = FALSE, !.deleted_at = NoTime, !.deleted_by = NoUser]

\* soft_delete: the attributes are set, then super().save(force_update=True)
\* from SoftDeleteMixin, whose next save in the MRO is ImmutableModelMixin.save:
\* ContentBase.save and its full_clean are skipped.
SoftDeleteAs(op, user) ==
    /\ Held
    /\ LET inst == SoftDeleted(Self, user)
           res == GuardedSave(inst, TRUE)
       IN  /\ h' = <<inst>>
           /\ rows' = res.rows
           /\ last' = Call(op, res.out, NoVal,
                           IF res.out = "ok" /\ Persisted(inst.pk)
                              /\ ~rows[inst.pk].is_deleted
                           THEN <<NonTriad(rows[inst.pk])>> ELSE NoPre)
    /\ UNCHANGED <<now, threads, worlds, nextId, contrib, dbTags, dbLinks>>

SoftDelete(user) == SoftDeleteAs("soft_delete", user)

Restore ==
    /\ Held
    /\ LET inst == Restored(Self)
           res == GuardedSave(inst, TRUE)
       IN  /\ h' = <<inst>>
           /\ rows' = res.rows
           /\ last' = Call("restore", res.out, NoVal,
                           IF res.out = "ok" /\ last.op \in {"soft_delete", "delete"}
                           THEN last.pre ELSE NoPre)
    /\ UNCHANGED <<now, threads, worlds, nextId, contrib, dbTags, dbLinks>>

(* --------------------- ImmutableModelMixin.delete --------------------- *)
\* Mutant of HasSoftDelete: no content kind has a soft_delete method.
HasSoftDelete_None(kind) == FALSE

\* hasattr(self, 'soft_delete'): ContentBase mixes SoftDeleteMixin in, so every
\* content kind has it.
HasSoftDelete(kind) == kind \in Kinds

\* Mutant of Delete: Model.delete runs, the row is removed.
Delete_Hard(user) ==
    /\ Held
    /\ rows' = [k \in DOMAIN rows \ {Self.pk} |-> rows[k]]
    /\ last' = Call("delete", "ok", NoVal, NoPre)
    /\ UNCHANGED <<now, threads, worlds, nextId, contrib, dbTags, dbLinks, h>>

Delete(user) ==
    /\ Held
    /\ IF HasSoftDelete(Self.pk.kind)
       THEN SoftDeleteAs("delete", user)
       ELSE /\ last' = Call("delete", "ImmutabilityViolationError", NoVal, NoPre)
            /\ UNCHANGED <<now, threads, dbContent, dbTags, dbLinks, h>>

(* ----------------------- ContentBase.add_tag -------------------------- *)
\* Mutant of NormalizeTagName: the name is trimmed but not lowercased.
NormalizeTagName_NoLower(name) == Strip(name)

\* tag_name.strip().lower()
NormalizeTagName(name) == Lower(Strip(name))

\* Tag.objects.get(name=, world=): the matching Tag rows.
TagsNamed(name, world) == {t \in tags : t.name = name /\ t.world = world}

\* ContentTag.objects.get(content_type=, object_id=, tag=)
ContentTagsOf(pk, tagId) == {ct \in contentTags : ct.pk = pk /\ ct.tag = tagId}

\* Tag.save -> full_clean: CharField(max_length=100), the world must exist,
\* Tag.clean rejects a blank name.
TagCleanOk(name, world) ==
    /\ Len(name) <= MaxTagNameLen
    /\ world \in worlds
    /\ Strip(name) # <<>>

\* add_tag records the instance, the name as given and as normalized, and the
\* same of the add_tag call just before it (if that was the last call).
TagNote(pk, raw, name) ==
    <<[pk |-> pk, raw |-> raw, name |-> name,
       prev |-> IF last.op = "add_tag" /\ last.out = "ok"
                THEN <<[pk |-> last.pre[1].pk, raw |-> last.pre[1].raw,
                        name |-> last.pre[1].name, val |-> last.val]>>
                ELSE <<>>]>>

\* The tag tables as one value, for the steps of a call that writes to them
\* more than once.
TagDb ==
    [tags |-> tags, contentTags |-> contentTags, nextTagId |-> nextTagId,
     nextContentTagId |-> nextContentTagId]

\* One add_tag call of the entry pk (of the given world) on the tag tables db:
\* its outcome, the id of the ContentTag it returns and the tables after it.
AddTagStep(db, pk, world, raw) ==
    LET name == NormalizeTagName(raw)
        found == {t \in db.tags : t.name = name /\ t.world = world}
        tagId == IF found # {} THEN (CHOOSE t \in found : TRUE).id ELSE db.nextTagId
        assoc == {ct \in db.contentTags : ct.pk = pk /\ ct.tag = tagId}
        ctId == IF assoc # {} THEN (CHOOSE ct \in assoc : TRUE).id
                ELSE db.nextContentTagId
    IN  IF name = <<>> \/ (found = {} /\ ~TagCleanOk(name, world))
        THEN [out |-> "ValidationError", val |-> NoVal, db |-> db]
        ELSE [out |-> "ok", val |-> ctId,
              db |-> [tags |-> IF found = {}
                               THEN db.tags \cup
                                    {[id |-> tagId, name |-> name, world |-> world]}
                               ELSE db.tags,
                      nextTagId |-> IF found = {} THEN db.nextTagId + 1
                                    ELSE db.nextTagId,
                      contentTags |-> IF assoc = {}
                                      THEN db.contentTags \cup
                                           {[id |-> ctId, pk |-> pk, tag |-> tagId]}
                                      ELSE db.contentTags,
                      nextContentTagId |-> IF assoc = {} THEN db.nextContentTagId + 1
                                           ELSE db.nextContentTagId]]

\* The tag tables become db; the ids stay within the bounds of the model.
WriteTagDb(db) ==
    /\ db.nextTagId <= MaxTagId + 1
    /\ db.nextContentTagId <= MaxContentTagId + 1
    /\ tags' = db.tags
    /\ contentTags' = db.contentTags
    /\ nextTagId' = db.nextTagId
    /\ nextContentTagId' = db.nextContentTagId

AddTag(raw) ==
    /\ Held
    /\ LET res == AddTagStep(TagDb, Self.pk, Self.world, raw)
       IN  /\ WriteTagDb(res.db)
           /\ last' = Call("add_tag", res.out, res.val,
                           IF res.out = "ok"
                           THEN TagNote(Self.pk, raw, NormalizeTagName(raw))
                           ELSE NoPre)
    /\ UNCHANGED <<now, threads, dbContent, dbLinks, h>>

(* ------------------------ ContentBase.add_tags ------------------------ *)
\* The loop over a list of names: blank names are skipped, add_tag is called
\* for the others, and the first add_tag that raises ends the loop with the
\* tables as the calls before it left them.
RECURSIVE AddTagsLoop(_, _, _, _)
AddTagsLoop(db, pk, world, names) ==
    IF names = <<>> THEN [out |-> "ok", vals |-> <<>>, db |-> db]
    ELSE IF Strip(Head(names)) = <<>> THEN AddTagsLoop(db, pk, world, Tail(names))
    ELSE LET r == AddTagStep(db, pk, world, Head(names))
             rest == AddTagsLoop(r.db, pk, world, Tail(names))
         IN  IF r.out # "ok" THEN [out |-> r.out, vals |-> <<>>, db |-> r.db]
             ELSE [out |-> rest.out, vals |-> <<r.val>> \o rest.vals, db |-> rest.db]

AddTags(names) ==
    /\ Held
    /\ LET res == AddTagsLoop(TagDb, Self.pk, Self.world, names)
       IN  /\ WriteTagDb(res.db)
           /\ last' = Call("add_tags", res.out,
                           IF res.out = "ok" THEN res.vals ELSE NoVal, NoPre)
    /\ UNCHANGED <<now, threads, dbContent, dbLinks, h>>

(* ---------------------- ContentBase.remove_tag ------------------------ *)
RemoveTag(raw) ==
    /\ Held
    /\ LET name == Lower(Strip(raw))
           found == TagsNamed(name, Self.world)
           assoc == IF found = {} THEN {}
                    ELSE ContentTagsOf(Self.pk, (CHOOSE t \in found : TRUE).id)
       IN  /\ contentTags' = contentTags \ assoc
           /\ last' = Call("remove_tag", "ok", assoc # {}, NoPre)
    /\ UNCHANGED <<now, threads, dbContent, dbLinks, tags, nextTagId, nextContentTagId, h>>

(* ------------------ ContentBase.get_content_by_tags ------------------- *)
\* [name.strip().lower() for name in tag_names], the empty strings removed.
RECURSIVE CleanNames(_)
CleanNames(names) ==
    IF names = <<>> THEN {}
    ELSE (IF Lower(Strip(Head(names))) = <<>> THEN {} ELSE {Lower(Strip(Head(names)))})
         \cup CleanNames(Tail(names))

\* ContentTag.objects.filter(tag=, content_type=).values_list('object_id')
TaggedIds(kind, tagId) ==
    {ct.pk.id : ct \in {x \in contentTags : x.tag = tagId /\ x.pk.kind = kind}}

\* The loop of the match_all branch: the id sets of the Tag rows that were
\* found are intersected; None when no Tag row was found.
RECURSIVE IntersectTagged(_, _)
IntersectTagged(kind, found) ==
    IF found = {} THEN 1..MaxRows + 2
    ELSE LET t == CHOOSE x \in found : TRUE
         IN  TaggedIds(kind, t.id) \cap IntersectTagged(kind, found \ {t})

\* cls.objects.filter(id__in=ids, world=world): the keys of the rows returned.
ContentIn(kind, ids, world) ==
    {k \in ActiveKeys : k.kind = kind /\ k.id \in ids /\ rows[k].world = world}

GetContentByTagsResult(kind, world, names, matchAll) ==
    LET wanted == CleanNames(names)
        found == {t \in tags : t.name \in wanted /\ t.world = world}
    IN  IF wanted = {} THEN {}
        ELSE IF matchAll
        THEN IF found = {} THEN {}
             ELSE ContentIn(kind, IntersectTagged(kind, found), world)
        ELSE ContentIn(kind, UNION {TaggedIds(kind, t.id) : t \in found}, world)

GetContentByTags(kind, world, names, matchAll) ==
    /\ last' = Call("get_content_by_tags", "ok",
                    GetContentByTagsResult(kind, world, names, matchAll),
                    <<[kind |-> kind, world |-> world, names |-> names,
                       match_all |-> matchAll]>>)
    /\ UNCHANGED <<now, threads, dbContent, dbTags, dbLinks, h>>

(* ------------------------ ContentBase.link_to ------------------------- *)
\* ContentLink.objects.get(from_content_type=, from_object_id=, to_...)
LinksFromTo(from, to) == {l \in links : l.from = from /\ l.to = to}

\* ContentLink.clean, run by ContentLink.save through full_clean.
LinkCleanOk(from, to) == ~(from.kind = to.kind /\ from.id = to.id)

\* Mutant of LinkInserts: the reverse row is never created.
LinkInserts_ForwardOnly(from, to) ==
    IF LinksFromTo(from, to) = {}
    THEN {[id |-> nextLinkId, from |-> from, to |-> to]} ELSE {}

\* Mutant of LinkInserts: create() in place of get_or_create().
LinkInserts_AlwaysCreate(from, to) ==
    {[id |-> nextLinkId, from |-> from, to |-> to],
     [id |-> nextLinkId + 1, from |-> to, to |-> from]}

\* The rows the two get_or_create calls of link_to insert.
LinkInserts(from, to) ==
    LET fwd == IF LinksFromTo(from, to) = {}
               THEN {[id |-> nextLinkId, from |-> from, to |-> to]} ELSE {}
        rev == IF LinksFromTo(to, from) = {}
               THEN {[id |-> nextLinkId + Cardinality(fwd), from |-> to, to |-> from]}
               ELSE {}
    IN  fwd \cup rev

\* Mutant of SameWorld: the world comparison of link_to is gone.
SameWorld_Always(a, b) == TRUE

\* target_content.world != self.world, negated.
SameWorld(a, b) == a.world = b.world

\* link_to and unlink_from record the two instances of the call.
LinkNote(self, target) ==
    <<[from |-> self.pk, to |-> target.pk,
       fromWorld |-> self.world, toWorld |-> target.world]>>

\* link_to(target): target is the instance the caller passes.
LinkTo(target) ==
    /\ Held
    /\ LET from == Self.pk
           to == target.pk
           ins == LinkInserts(from, to)
           fwd == LinksFromTo(from, to) \cup {l \in ins : l.from = from /\ l.to = to}
           note == LinkNote(Self, target)
       IN  IF ~SameWorld(target, Self)
           THEN /\ last' = Call("link_to", "ValidationError: different worlds",
                                NoVal, note)
                /\ UNCHANGED dbLinks
           ELSE IF ins # {} /\ ~LinkCleanOk(from, to)
           THEN /\ last' = Call("link_to", "ValidationError: self link", NoVal, note)
                /\ UNCHANGED dbLinks
           ELSE /\ nextLinkId + Cardinality(ins) - 1 <= MaxLinkId
                /\ links' = links \cup ins
                /\ nextLinkId' = nextLinkId + Cardinality(ins)
                /\ last' = Call("link_to", "ok", (CHOOSE l \in fwd : TRUE).id, note)
    /\ UNCHANGED <<now, threads, dbContent, dbTags, h>>

(* ---------------------- ContentBase.unlink_from ----------------------- *)
\* The forward row is looked up and deleted, then the reverse row; a missing
\* row ends the call with False, after whatever was deleted before.
UnlinkRemoves(from, to) ==
    IF LinksFromTo(from, to) = {} THEN {}
    ELSE LinksFromTo(from, to) \cup LinksFromTo(to, from)

\* Mutant of UnlinkReturns: unlink_from answers True whatever it found.
UnlinkReturns_AlwaysTrue(from, to) == TRUE

UnlinkReturns(from, to) ==
    LinksFromTo(from, to) # {} /\ (LinksFromTo(to, from) \ LinksFromTo(from, to)) # {}

UnlinkFrom(target) ==
    /\ Held
    /\ links' = links \ UnlinkRemoves(Self.pk, target.pk)
    /\ last' = Call("unlink_from", "ok", UnlinkReturns(Self.pk, target.pk),
                    LinkNote(Self, target))
    /\ UNCHANGED <<now, threads, dbContent, dbTags, nextLinkId, h>>

(* ------------------- ContentViewSetMixin.create ----------------------- *)
\* The links loop of the view for the new entry k: the target is fetched with
\* objects.get(id=, world=) among the rows after the insert and linked with
\* link_to; a target that is not found, or a link_to that raises, is skipped.
RequestLinks(k, world, targets, rowsAfter) ==
    IF targets = <<>> THEN {}
    ELSE LET t == targets[1]
             found == /\ t \in DOMAIN rowsAfter
                      /\ ~rowsAfter[t].is_deleted
                      /\ rowsAfter[t].world = world
         IN  IF found /\ LinkCleanOk(k, t) THEN LinkInserts(k, t) ELSE {}

\* POST of a new entry with optional tags and links.  The serializer strips
\* title and content; every exception of validation or save leaves the view as
\* ContentValidationError; the tags are attached next and the links last.
CreateRequest(kind, title, content, author, world, tagNames, targets) ==
    LET k == [kind |-> kind, id |-> nextId[kind]]
        row == NewRow(Strip(title), Strip(content), author, world)
        valid == FullClean(kind, NoPk, row.title, row.content, world)
        rowsAfter == [x \in DOMAIN rows \cup {k} |-> IF x = k THEN row ELSE rows[x]]
        tagged == AddTagsLoop(TagDb, k, world, tagNames)
        ins == IF tagged.out = "ok" THEN RequestLinks(k, world, targets, rowsAfter)
               ELSE {}
        note == <<[inst |-> Instance(k, row), tags |-> tagNames, links |-> targets]>>
    IN  /\ Cardinality(Inserted) < MaxRows
        /\ Len(targets) <= 1
        /\ IF world \notin worlds
           THEN /\ last' = Call("create_request", "WorldAccessError", NoVal, note)
                /\ UNCHANGED <<dbContent, dbTags, dbLinks>>
           ELSE IF valid # "ok"
           THEN /\ last' = Call("create_request", "ContentValidationError", NoVal, note)
                /\ UNCHANGED <<dbContent, dbTags, dbLinks>>
           ELSE /\ rows' = rowsAfter
                /\ nextId' = [nextId EXCEPT ![kind] = @ + 1]
                /\ contrib' = [contrib EXCEPT ![author] = @ + 1]
                /\ WriteTagDb(tagged.db)
                /\ nextLinkId + Cardinality(ins) - 1 <= MaxLinkId
                /\ links' = links \cup ins
                /\ nextLinkId' = nextLinkId + Cardinality(ins)
                /\ last' = Call("create_request", tagged.out, k.id, note)
                /\ UNCHANGED worlds
        /\ UNCHANGED <<now, threads, h>>

(* ------- ContentBase.get_linked_content / get_content_linking_to_this - *)
\* The link rows of a set in the order of their ids, as a sequence.
RECURSIVE LinkSeq(_)
LinkSeq(ls) ==
    IF ls = {} THEN <<>>
    ELSE LET first == CHOOSE l \in ls : \A o \in ls : l.id <= o.id
         IN  <<first>> \o LinkSeq(ls \ {first})

\* link.to_content / link.from_content: the generic foreign key fetches the row
\* through the model's base manager, which does not filter on is_deleted; a
\* missing row gives None.
GenericGet(k) == IF k \in AllKeys THEN <<k>> ELSE <<>>

RECURSIVE Targets(_)
Targets(lseq) ==
    IF lseq = <<>> THEN <<>>
    ELSE GenericGet(Head(lseq).to) \o Targets(Tail(lseq))

RECURSIVE Sources(_)
Sources(lseq) ==
    IF lseq = <<>> THEN <<>>
    ELSE GenericGet(Head(lseq).from) \o Sources(Tail(lseq))

GetLinkedContent ==
    /\ Held
    /\ last' = Call("get_linked_content", "ok",
                    Targets(LinkSeq({l \in links : l.from = Self.pk})), <<Self.pk>>)
    /\ UNCHANGED <<now, threads, dbContent, dbTags, dbLinks, h>>

GetContentLinkingToThis ==
    /\ Held
    /\ last' = Call("get_content_linking_to_this", "ok",
                    Sources(LinkSeq({l \in links : l.to = Self.pk})), <<Self.pk>>)
    /\ UNCHANGED <<now, threads, dbContent, dbTags, dbLinks, h>>

(* ------------------- maintenance commands ----------------------------- *)
\* manage_deleted_content purge --id: item = all_objects.get(id=, is_deleted=True);
\* super(model_class, item).delete() resolves to ImmutableModelMixin.delete.
PurgeContent(k) ==
    /\ k \in AllKeys
    /\ rows[k].is_deleted
    /\ rows' = GuardedSave(SoftDeleted(Instance(k, rows[k]), NoUser), TRUE).rows
    /\ last' = Call("purge", "ok", NoVal, <<k>>)
    /\ UNCHANGED <<now, threads, worlds, nextId, contrib, dbTags, dbLinks, h>>

\* hard_delete_content delete-world: world.delete() cascades over the foreign
\* keys (content rows, tags and through the tags their ContentTag rows); the
\* generic ContentLink rows have no foreign key to content and stay.
DeleteWorld(w) ==
    /\ w \in worlds
    /\ worlds' = worlds \ {w}
    /\ rows' = [k \in {x \in DOMAIN rows : rows[x].world # w} |-> rows[k]]
    /\ tags' = {t \in tags : t.world # w}
    /\ contentTags' = {ct \in contentTags :
                          \E t \in tags : t.id = ct.tag /\ t.world # w}
    /\ last' = Call("delete_world", "ok", NoVal, NoPre)
    /\ UNCHANGED <<now, threads, nextId, contrib, nextTagId, nextContentTagId, dbLinks, h>>

\* Time passes.
Tick ==
    /\ now < MaxTime
    /\ now' = now + 1
    /\ last' = Call("tick", "ok", NoVal, NoPre)
    /\ UNCHANGED <<dbContent, dbTags, dbLinks, h, threads>>

(* ---------------- concurrent requests: the steps of a call ------------ *)
\* A thread runs one call; every query of the call is a step of its own, the
\* database being in autocommit mode (no transaction.atomic around the calls).
Threads == 1..MaxThreads

IdleThread == [pc |-> "idle", args |-> <<>>, loc |-> <<>>, out |-> "", val |-> NoVal]

Finished(t) == threads[t].pc \in {"idle", "done"}

Goto(t, pc, loc) == threads' = [threads EXCEPT ![t].pc = pc, ![t].loc = loc]

Return(t, out, val) ==
    threads' = [threads EXCEPT ![t].pc = "done", ![t].out = out, ![t].val = val]

(* ContentBase.save of a new instance, step by step *)
\* self.full_clean()
CreateClean(t, kind, title, content, author, world) ==
    LET valid == FullClean(kind, NoPk, title, content, world)
        args == [kind |-> kind, title |-> title, content |-> content,
                 author |-> author, world |-> world]
    IN  /\ threads[t].pc = "idle"
        /\ threads' = [threads EXCEPT ![t] =
                          IF valid = "ok"
                          THEN [IdleThread EXCEPT !.pc = "insert", !.args = args]
                          ELSE [IdleThread EXCEPT !.pc = "done", !.args = args,
                                                  !.out = valid]]
        /\ UNCHANGED <<now, dbContent, dbTags, dbLinks, h, last>>

\* super().save(): the INSERT
CreateInsert(t) ==
    LET a == threads[t].args
        k == [kind |-> a.kind, id |-> nextId[a.kind]]
        row == NewRow(a.title, a.content, a.author, a.world)
    IN  /\ threads[t].pc = "insert"
        /\ Cardinality(Inserted) < MaxRows
        /\ rows' = [x \in DOMAIN rows \cup {k} |-> IF x = k THEN row ELSE rows[x]]
        /\ nextId' = [nextId EXCEPT ![a.kind] = @ + 1]
        /\ Goto(t, "profile_get", <<k>>)
        /\ UNCHANGED <<now, worlds, contrib, dbTags, dbLinks, h, last>>

\* UserProfile.objects.get_or_create(user=self.author): the profile is read
CreateProfileGet(t) ==
    /\ threads[t].pc = "profile_get"
    /\ Goto(t, "profile_save", <<threads[t].loc[1], contrib[threads[t].args.author]>>)
    /\ UNCHANGED <<now, dbContent, dbTags, dbLinks, h, last>>

\* profile.contribution_count += 1, on the instance that was read
ProfileCount(t) == threads[t].loc[2] + 1

\* profile.save()
CreateProfileSave(t) ==
    /\ threads[t].pc = "profile_save"
    /\ contrib' = [contrib EXCEPT ![threads[t].args.author] = ProfileCount(t)]
    /\ Return(t, "ok", threads[t].loc[1].id)
    /\ UNCHANGED <<now, worlds, rows, nextId, dbTags, dbLinks, h, last>>

(* ContentBase.add_tag, step by step *)
\* tag_name.strip().lower(), the empty-name check and the get of
\* Tag.objects.get_or_create
TagGet(t, k, raw) ==
    LET name == NormalizeTagName(raw)
        args == [pk |-> k, world |-> rows[k].world, raw |-> raw, name |-> name]
        found == TagsNamed(name, args.world)
    IN  /\ threads[t].pc = "idle"
        /\ k \in AllKeys
        /\ threads' = [threads EXCEPT ![t] =
              IF name = <<>>
              THEN [IdleThread EXCEPT !.pc = "done", !.args = args,
                                      !.out = "ValidationError"]
              ELSE IF found # {}
              THEN [IdleThread EXCEPT !.pc = "assoc_get", !.args = args,
                                      !.loc = <<(CHOOSE x \in found : TRUE).id>>]
              ELSE [IdleThread EXCEPT !.pc = "tag_clean", !.args = args]]
        /\ UNCHANGED <<now, dbContent, dbTags, dbLinks, h, last>>

\* create() of get_or_create: Tag.save runs full_clean, whose validate_unique
\* queries the unique_together pair; its ValidationError is not the
\* IntegrityError get_or_create recovers from.
TagClean(t) ==
    LET a == threads[t].args
    IN  /\ threads[t].pc = "tag_clean"
        /\ IF TagCleanOk(a.name, a.world) /\ TagsNamed(a.name, a.world) = {}
           THEN Goto(t, "tag_insert", <<>>)
           ELSE Return(t, "ValidationError", NoVal)
        /\ UNCHANGED <<now, dbContent, dbTags, dbLinks, h, last>>

\* The INSERT of the Tag; on a unique violation get_or_create fetches the row
\* that is there.
TagInsert(t) ==
    LET a == threads[t].args
        found == TagsNamed(a.name, a.world)
    IN  /\ threads[t].pc = "tag_insert"
        /\ IF found # {}
           THEN /\ Goto(t, "assoc_get", <<(CHOOSE x \in found : TRUE).id>>)
                /\ UNCHANGED <<tags, nextTagId>>
           ELSE /\ nextTagId <= MaxTagId
                /\ tags' = tags \cup {[id |-> nextTagId, name |-> a.name,
                                        world |-> a.world]}
                /\ nextTagId' = nextTagId + 1
                /\ Goto(t, "assoc_get", <<nextTagId>>)
        /\ UNCHANGED <<now, dbContent, contentTags, nextContentTagId, dbLinks, h, last>>

\* The get of ContentTag.objects.get_or_create
AssocGet(t) ==
    LET assoc == ContentTagsOf(threads[t].args.pk, threads[t].loc[1])
    IN  /\ threads[t].pc = "assoc_get"
        /\ IF assoc # {}
           THEN Return(t, "ok", (CHOOSE ct \in assoc : TRUE).id)
           ELSE Goto(t, "assoc_insert", threads[t].loc)
        /\ UNCHANGED <<now, dbContent, dbTags, dbLinks, h, last>>

\* The INSERT of the ContentTag (ContentTag.save runs no full_clean); on a
\* unique violation the row that is there is fetched.
AssocInsert(t) ==
    LET pk == threads[t].args.pk
        tagId == threads[t].loc[1]
        assoc == ContentTagsOf(pk, tagId)
    IN  /\ threads[t].pc = "assoc_insert"
        /\ IF assoc # {}
           THEN /\ Return(t, "ok", (CHOOSE ct \in assoc : TRUE).id)
                /\ UNCHANGED <<contentTags, nextContentTagId>>
           ELSE /\ nextContentTagId <= MaxContentTagId
                /\ contentTags' = contentTags \cup
                      {[id |-> nextContentTagId, pk |-> pk, tag |-> tagId]}
                /\ nextContentTagId' = nextContentTagId + 1
                /\ Return(t, "ok", nextContentTagId)
        /\ UNCHANGED <<now, dbContent, tags, nextTagId, dbLinks, h, last>>

(* ----------------------------- Init ----------------------------------- *)
Init ==
    /\ now = 1
    /\ worlds = WorldIds
    /\ rows = <<>>
    /\ nextId = [kd \in Kinds |-> 1]
    /\ contrib = [u \in Users |-> 0]
    /\ tags = {}
    /\ contentTags = {}
    /\ links = {}
    /\ nextTagId = 1
    /\ nextContentTagId = 1
    /\ nextLinkId = 1
    /\ h = <<>>
    /\ last = Call("init", "ok", NoVal, NoPre)
    /\ threads = <<>>

(* ---------------- the immutability guard: SpecGuard ------------------- *)
\* One caller works on content through a model instance: it creates, reloads,
\* assigns attributes, saves (with and without force_update), soft-deletes,
\* restores and deletes, while the maintenance commands run beside it.
GuardTitles == {TFoo, Tfoo, TShort}
GuardActors == {NoUser, 1}

NextGuard ==
    \/ \E kind \in Kinds, t \in GuardTitles :
          /\ Cardinality(Inserted) < GuardRows
          /\ Create(kind, t, BodyA, 1, 1)
    \/ \E k \in Keys : Get(k)
    \/ \E t \in GuardTitles : SetAttr("title", t)
    \/ \E b \in BOOLEAN : SetAttr("is_deleted", b)
    \/ \E u \in GuardActors : SetAttr("deleted_by", u)
    \/ \E force \in BOOLEAN : Save(force)
    \/ \E u \in GuardActors : SoftDelete(u)
    \/ Restore
    \/ \E u \in GuardActors : Delete(u)
    \/ \E k \in Keys : PurgeContent(k)
    \/ \E w \in WorldIds : DeleteWorld(w)

SpecGuard == Init /\ [][NextGuard]_vars

(* ------------- titles within a world: SpecTitles ---------------------- *)
\* Content is created, soft-deleted and restored; nothing is edited.
TitleInputs == {TFoo, Tfoo, TPadFoo, TBar, TShort}

NextTitles ==
    \/ \E kind \in Kinds, t \in TitleInputs, a \in Users, w \in WorldIds :
          \E c \in {BodyA, BodyShort} :
             Cardinality(Inserted) < MaxRows /\ Create(kind, t, c, a, w)
    \/ \E k \in Keys : Get(k)
    \/ \E u \in Users : SoftDelete(u)
    \/ Restore

SpecTitles == Init /\ [][NextTitles]_vars

(* ---------------- a populated database: InitFixture ------------------- *)
\* Three entries in world 1 (two pages and a character, page 1 and character 1
\* sharing the id) and a character in world 2, created by two authors.
FixtureKeys ==
    {[kind |-> "page", id |-> 1], [kind |-> "page", id |-> 2],
     [kind |-> "character", id |-> 1], [kind |-> "character", id |-> 2]}

FixtureRow(k) ==
    [title |-> IF k.id = 1 THEN TFoo ELSE TBar,
     content |-> BodyA,
     author |-> IF k.kind = "page" THEN 1 ELSE 2,
     world |-> IF k = [kind |-> "character", id |-> 2] THEN 2 ELSE 1,
     created_at |-> 1, is_deleted |-> FALSE, deleted_at |-> NoTime,
     deleted_by |-> NoUser]

InitFixture ==
    /\ now = 1
    /\ worlds = WorldIds
    /\ rows = [k \in FixtureKeys |-> FixtureRow(k)]
    /\ nextId = [kd \in Kinds |-> 3]
    /\ contrib = [u \in Users |-> 2]
    /\ tags = {}
    /\ contentTags = {}
    /\ links = {}
    /\ nextTagId = 1
    /\ nextContentTagId = 1
    /\ nextLinkId = 1
    /\ h = <<>>
    /\ last = Call("init", "ok", NoVal, NoPre)
    /\ threads = <<>>

(* ------------------------- linking: SpecLinks ------------------------- *)
\* The caller loads an entry and links it to, or unlinks it from, another
\* freshly loaded entry.
NextLinks ==
    \/ \E k \in FixtureKeys : Get(k)
    \/ \E t \in AllKeys : LinkTo(Instance(t, rows[t]))
    \/ \E t \in AllKeys : UnlinkFrom(Instance(t, rows[t]))

SpecLinks == InitFixture /\ [][NextLinks]_vars

(* ------------- links to removed content: SpecDangling ----------------- *)
\* Entries are linked, soft-deleted and purged by the maintenance commands,
\* and the links of an entry are listed.
DanglingKeys == {k \in FixtureKeys : k.id = 1}

NextDangling ==
    \/ \E k \in DanglingKeys : Get(k)
    \/ \E t \in AllKeys \cap DanglingKeys : LinkTo(Instance(t, rows[t]))
    \/ \E u \in {1} : SoftDelete(u)
    \/ \E k \in Keys : PurgeContent(k)
    \/ \E w \in WorldIds : DeleteWorld(w)
    \/ GetLinkedContent
    \/ GetContentLinkingToThis

SpecDangling == InitFixture /\ [][NextDangling]_vars

(* ------------------------- tagging: SpecTags -------------------------- *)
NFantasy == <<"F", "a", "n">>
Nfantasy == <<"f", "a", "n">>
NPadFantasy == <<" ", "f", "a", "n", " ">>
NMap == <<"M", "a", "p">>
NBlank == <<" ">>
TagNames == {NFantasy, Nfantasy, NPadFantasy, NMap, NBlank}

NextTags ==
    \/ \E k \in FixtureKeys : Get(k)
    \/ \E n \in TagNames : AddTag(n)
    \/ \E n \in TagNames : RemoveTag(n)

SpecTags == InitFixture /\ [][NextTags]_vars

(* --------------- concurrent creates: SpecCreateRace ------------------- *)
\* Each thread creates one entry; the steps of the creates interleave.
InitThreads ==
    /\ now = 1
    /\ worlds = WorldIds
    /\ rows = <<>>
    /\ nextId = [kd \in Kinds |-> 1]
    /\ contrib = [u \in Users |-> 0]
    /\ tags = {}
    /\ contentTags = {}
    /\ links = {}
    /\ nextTagId = 1
    /\ nextContentTagId = 1
    /\ nextLinkId = 1
    /\ h = <<>>
    /\ last = Call("init", "ok", NoVal, NoPre)
    /\ threads = [t \in Threads |-> IdleThread]

NextCreateRace ==
    \E t \in Threads :
       \/ \E kind \in Kinds, ti \in {TFoo, TBar, TShort}, a \in Users, w \in WorldIds :
             CreateClean(t, kind, ti, BodyA, a, w)
       \/ CreateInsert(t)
       \/ CreateProfileGet(t)
       \/ CreateProfileSave(t)

SpecCreateRace == InitThreads /\ [][NextCreateRace]_vars

(* ----------------- concurrent add_tag: SpecTagRace -------------------- *)
\* Each thread tags one entry of the fixture; the steps interleave.
InitFixtureThreads ==
    /\ now = 1
    /\ worlds = WorldIds
    /\ rows = [k \in FixtureKeys |-> FixtureRow(k)]
    /\ nextId = [kd \in Kinds |-> 3]
    /\ contrib = [u \in Users |-> 2]
    /\ tags = {}
    /\ contentTags = {}
    /\ links = {}
    /\ nextTagId = 1
    /\ nextContentTagId = 1
    /\ nextLinkId = 1
    /\ h = <<>>
    /\ last = Call("init", "ok", NoVal, NoPre)
    /\ threads = [t \in Threads |-> IdleThread]

NextTagRace ==
    \E t \in Threads :
       \/ \E k \in FixtureKeys, n \in {NFantasy, NPadFantasy, NMap, NBlank} :
             TagGet(t, k, n)
       \/ TagClean(t)
       \/ TagInsert(t)
       \/ AssocGet(t)
       \/ AssocInsert(t)

SpecTagRace == InitFixtureThreads /\ [][NextTagRace]_vars

(* ------------------ create requests: SpecRequest ---------------------- *)
\* Entries are created through the API with tags and links, and tagged
\* afterwards with add_tag and add_tags.
NOne == <<"M">>
NApi == <<"A", "p", "i">>
NBang == <<"f", "!">>
NLong == [i \in 1..(MaxTagNameLen + 1) |-> "x"]
RequestTagLists == {<<>>, <<NFantasy, NLong>>, <<NBlank, NMap>>, <<NOne, NApi>>}
RequestTitles == {TFoo, TShort}

NextRequest ==
    \/ \E kind \in Kinds, t \in RequestTitles :
          \E ns \in RequestTagLists, ts \in {<<>>} \cup {<<k>> : k \in Keys} :
             CreateRequest(kind, t, BodyA, 1, 1, ns, ts)
    \/ \E k \in Keys : Get(k)
    \/ \E n \in {NBang} : AddTag(n)
    \/ \E ns \in {<<NOne, NBlank>>} : AddTags(ns)

SpecRequest == Init /\ [][NextRequest]_vars

(* --------------------- tag queries: SpecTagQuery ---------------------- *)
\* Entries are tagged and soft-deleted, and content is looked up by lists of
\* one or two tag names.
QueryLists == {<<NFantasy>>, <<NMap>>, <<NFantasy, NMap>>, <<NBlank, NMap>>, <<NBlank>>}
QueryKeys == {k \in FixtureKeys : k.kind = "page"}

NextTagQuery ==
    \/ \E k \in QueryKeys : Get(k)
    \/ \E n \in {NFantasy, NMap} : AddTag(n)
    \/ \E u \in {1} : SoftDelete(u)
    \/ \E kind \in Kinds, w \in WorldIds, ns \in QueryLists, all \in BOOLEAN :
          GetContentByTags(kind, w, ns, all)

SpecTagQuery == InitFixture /\ [][NextTagQuery]_vars

(* ======================= claims: immutability guard =================== *)
NonTriadDiffers(inst, row) == NonTriad(inst) # NonTriad(row)

\* A step that is the call `op` on a held instance whose row exists.
CallOn(op) == last'.op = op /\ Held /\ Persisted(Self.pk)

\* The non-triad columns of every row are what they were before the step.
NonTriadKept ==
    \A k \in DOMAIN rows :
        /\ k \in DOMAIN rows'
        /\ NonTriad(rows'[k]) = NonTriad(rows[k])

AuthoringOps ==
    {"save", "delete", "soft_delete", "restore",
     "add_tag", "remove_tag", "link_to", "unlink_from"}

\* C1: no authoring-path call (save without force_update, delete, soft_delete,
\* restore, add_tag, remove_tag, link_to, unlink_from) changes a persisted
\* column other than is_deleted, deleted_at, deleted_by: each such step leaves
\* the non-triad columns of every row as they were.
C1_AuthoringKeepsContent ==
    [][last'.op \in AuthoringOps => NonTriadKept]_vars

\* C2 as claimed: a save() without force_update that changes a non-triad field
\* and no triad field raises ImmutabilityViolationError and leaves the row
\* unchanged.
C2_AlwaysImmutabilityError ==
    [][(/\ CallOn("save")
        /\ NonTriadDiffers(Self, rows[Self.pk])
        /\ ~TriadDiffers(Self, rows[Self.pk]))
       => (last'.out = "ImmutabilityViolationError" /\ rows' = rows)]_vars

\* C2 amended: such a save() always fails and leaves the row unchanged; it
\* raises ImmutabilityViolationError when the new values pass full_clean, and
\* the validation error of full_clean otherwise.
C2_SaveRejected ==
    [][(/\ CallOn("save")
        /\ NonTriadDiffers(Self, rows[Self.pk])
        /\ ~TriadDiffers(Self, rows[Self.pk]))
       => (/\ rows' = rows
           /\ last'.out \in {"ImmutabilityViolationError",
                             "ContentValidationError", "ValidationError"}
           /\ (last'.out = "ImmutabilityViolationError"
                 <=> CleanOk(Self.pk.kind, Self.pk, Self.title, Self.content,
                             Self.world) /\ FieldsOk(Self.title, Self.world)))]_vars

C2_Witness ==
    /\ last.op = "save"
    /\ last.out = "ImmutabilityViolationError"
    /\ Held /\ Persisted(Self.pk)
    /\ Self.title # rows[Self.pk].title
    /\ ~TriadDiffers(Self, rows[Self.pk])

\* C3: a save() without force_update that changes a triad field together with
\* another field (to values that pass validation) fails with an immutability
\* error and persists none of the changes.
C3_MixedChangeRejected ==
    [][(/\ CallOn("save")
        /\ NonTriadDiffers(Self, rows[Self.pk])
        /\ TriadDiffers(Self, rows[Self.pk])
        /\ FullClean(Self.pk.kind, Self.pk, Self.title, Self.content,
                     Self.world) = "ok")
       => (last'.out = "ImmutabilityViolationError" /\ rows' = rows)]_vars

C7_RoundTrip ==
    (/\ last.op = "restore" /\ last.out = "ok" /\ last.pre # NoPre
     /\ Held /\ Persisted(Self.pk))
    => (/\ NonTriad(rows[Self.pk]) = last.pre[1]
        /\ Triad(rows[Self.pk]) =
             [is_deleted |-> FALSE, deleted_at |-> NoTime, deleted_by |-> NoUser])

\* C8: the lifecycle of a row moves only along Active -> SoftDeleted,
\* SoftDeleted -> Active, Active -> Purged and SoftDeleted -> Purged (and from
\* not yet created to Active); nothing leaves Purged.
Life(k) ==
    IF k \in DOMAIN rows
    THEN IF rows[k].is_deleted THEN "SoftDeleted" ELSE "Active"
    ELSE IF k \in Inserted THEN "Purged" ELSE "Unborn"

LifeEdges ==
    {<<"Unborn", "Active">>, <<"Active", "SoftDeleted">>, <<"SoftDeleted", "Active">>,
     <<"Active", "Purged">>, <<"SoftDeleted", "Purged">>}

C9_SaveNeverWritesContent ==
    [][CallOn("save") => NonTriad(rows'[Self.pk]) = NonTriad(rows[Self.pk])]_vars

(* ======================= claims: titles =============================== *)
\* C5: no two Active rows of the same kind in the same world have titles that
\* are equal ignoring case.
C5_ActiveTitlesUnique ==
    \A k1 \in ActiveKeys, k2 \in ActiveKeys :
        (k1 # k2 /\ k1.kind = k2.kind /\ rows[k1].world = rows[k2].world)
        => ~IExact(rows[k1].title, rows[k2].title)

(* ======================= claims: linking ============================== *)
\* C4: a ContentLink row from X to Y exists if and only if a row from Y to X
\* exists.
C4_LinksSymmetric ==
    \A l \in links : \E m \in links : m.from = l.to /\ m.to = l.from

\* Two entries are linked, after an earlier pair was linked and unlinked again.
C4_Witness ==
    /\ last.op = "link_to" /\ last.out = "ok"
    /\ Cardinality(links) = 2
    /\ nextLinkId > 3

(* ======================= claims: tagging ============================== *)
\* C10: when add_tag(E, n1) is followed at once by add_tag(E, n2), both return
\* and n1, n2 are equal after trimming and lowercasing, there is exactly one
\* Tag of that name in E's world, exactly one association of E with it, and
\* the second call returned the association the first returned.
C10_AddTagIdempotent ==
    (/\ last.op = "add_tag" /\ last.out = "ok"
     /\ last.pre[1].prev # <<>>
     /\ last.pre[1].prev[1].pk = last.pre[1].pk
     /\ Lower(Strip(last.pre[1].prev[1].raw)) = Lower(Strip(last.pre[1].raw)))
    => LET pk == last.pre[1].pk
           named == TagsNamed(Lower(Strip(last.pre[1].raw)), Self.world)
       IN  /\ Cardinality(named) = 1
           /\ Cardinality({ct \in contentTags :
                             ct.pk = pk /\ \E t \in named : t.id = ct.tag}) = 1
           /\ last.val = last.pre[1].prev[1].val

\* "Fan" and then " fan " (or another spelling) were added to one entry.
C10_Witness ==
    /\ last.op = "add_tag" /\ last.out = "ok"
    /\ last.pre[1].prev # <<>>
    /\ last.pre[1].prev[1].pk = last.pre[1].pk
    /\ last.pre[1].prev[1].raw # last.pre[1].raw
    /\ Lower(Strip(last.pre[1].prev[1].raw)) = Lower(Strip(last.pre[1].raw))
    /\ last.val = last.pre[1].prev[1].val

(* ===================== claims: links, continued ======================= *)
\* The ContentLink rows between two entries, in either direction.
LinksBetween(ls, a, b) ==
    {l \in ls : (l.from = a /\ l.to = b) \/ (l.from = b /\ l.to = a)}

LinkCall(op) == last'.op = op /\ last'.pre # NoPre

\* C12: link_to between entries of different worlds fails with the
\* world-mismatch validation error whichever of the two is the caller, and
\* creates no ContentLink row in either direction.
C12_CrossWorldRejected ==
    [][(LinkCall("link_to") /\ last'.pre[1].fromWorld # last'.pre[1].toWorld)
       => /\ last'.out = "ValidationError: different worlds"
          /\ links' = links
          /\ LinksBetween(links', last'.pre[1].from, last'.pre[1].to) = {}]_vars

\* A cross-world link_to called from the world-2 entry on a world-1 entry was
\* rejected.
C12_Witness ==
    /\ last.op = "link_to" /\ last.out = "ValidationError: different worlds"
    /\ last.pre[1].fromWorld = 2 /\ last.pre[1].toWorld = 1

C14_RelinkNoOp ==
    [][(/\ LinkCall("link_to")
        /\ last'.pre[1].fromWorld = last'.pre[1].toWorld
        /\ last'.pre[1].from # last'.pre[1].to
        /\ LinksBetween(links, last'.pre[1].from, last'.pre[1].to) # {})
       => /\ last'.out = "ok"
          /\ \E l \in links : /\ l.id = last'.val
                              /\ l.from = last'.pre[1].from
                              /\ l.to = last'.pre[1].to
          /\ Cardinality(LinksBetween(links', last'.pre[1].from,
                                      last'.pre[1].to)) = 2]_vars

\* A link_to returned the row an earlier link_to in the opposite call order
\* had created as its reverse row (the second id of that call).
C14_Witness ==
    /\ last.op = "link_to" /\ last.out = "ok"
    /\ nextLinkId = 3
    /\ last.val = 2
    /\ Cardinality(LinksBetween(links, last.pre[1].from, last.pre[1].to)) = 2
InSeq(x, sq) == \E i \in 1..Len(sq) : sq[i] = x

\* C20: get_linked_content and get_content_linking_to_this never raise and
\* leave out an entry the purge command has just processed.
C20_PurgedOmitted ==
    [][(/\ last.op = "purge"
        /\ last'.op \in {"get_linked_content", "get_content_linking_to_this"})
       => /\ last'.out = "ok"
          /\ ~InSeq(last.pre[1], last'.val)]_vars
(* ========================= claims: tag queries ======================== *)
\* The entry k carries the tag named name (of the entry's world).
CarriesIn(ts, cts, world, k, name) ==
    \E t \in ts : /\ t.name = name /\ t.world = world
                  /\ \E ct \in cts : ct.pk = k /\ ct.tag = t.id

Carries(k, name) == CarriesIn(tags, contentTags, rows[k].world, k, name)

\* C15: for a list of names that is not empty once blanks are dropped,
\* get_content_by_tags returns in ALL mode exactly the non-deleted entries of
\* the kind and world that carry every name, in ANY mode exactly those that
\* carry at least one.
C15_TagSetAlgebra ==
    (last.op = "get_content_by_tags" /\ CleanNames(last.pre[1].names) # {})
    => LET q == last.pre[1]
           pool == {k \in ActiveKeys : k.kind = q.kind /\ rows[k].world = q.world}
           wanted == CleanNames(q.names)
       IN  last.val = IF q.match_all
                      THEN {k \in pool : \A n \in wanted : Carries(k, n)}
                      ELSE {k \in pool : \E n \in wanted : Carries(k, n)}
(* ====================== claims: titles on create ====================== *)
\* The Active rows of the kind and world whose title equals t ignoring case.
TitleTakenBy(kind, world, t) ==
    {k \in ActiveKeys : /\ k.kind = kind /\ rows[k].world = world
                        /\ Lower(rows[k].title) = Lower(t)}

\* C18: a create whose title equals, ignoring case, the title of an Active
\* entry of the same kind and world fails with a validation error and
\* persists nothing.
C18_DuplicateTitleRejected ==
    [][(/\ last'.op = "create"
        /\ TitleTakenBy(last'.pre[1].pk.kind, last'.pre[1].world,
                        last'.pre[1].title) # {})
       => /\ last'.out \in {"ContentValidationError", "ValidationError"}
          /\ UNCHANGED <<dbContent, dbTags, dbLinks>>]_vars
(* ====================== claims: create requests ======================= *)
\* C16: a create request with tags or links persists the entry together with
\* every requested tag and link, or persists nothing at all.
C16_CreateAllOrNothing ==
    [][last'.op = "create_request"
       => LET q == last'.pre[1]
              k == q.inst.pk
          IN  \/ UNCHANGED <<dbContent, dbTags, dbLinks>>
              \/ /\ k \in DOMAIN rows'
                 /\ \A i \in 1..Len(q.tags) :
                        Strip(q.tags[i]) # <<>>
                        => CarriesIn(tags', contentTags', q.inst.world, k,
                                     NormalizeTagName(q.tags[i]))
                 /\ \A i \in 1..Len(q.links) :
                        \E l \in links' : l.from = k /\ l.to = q.links[i]]_vars

(* ========================== claims: tag names ========================= *)
TagNameChars ==
    {"a", "b", "c", "d", "e", "f", "g", "h", "i", "j", "k", "l", "m", "n", "o",
     "p", "q", "r", "s", "t", "u", "v", "w", "x", "y", "z", "0", "1", "2", "3",
     "4", "5", "6", "7", "8", "9", "-", "_", " ", "\t"}

ReservedTagNames ==
    {<<"a", "d", "m", "i", "n">>, <<"s", "y", "s", "t", "e", "m">>,
     <<"a", "p", "i">>, <<"n", "u", "l", "l">>,
     <<"u", "n", "d", "e", "f", "i", "n", "e", "d">>,
     <<"d", "e", "l", "e", "t", "e">>, <<"e", "d", "i", "t">>}

MinTagNameLen == 2

\* TagNameValidator.__call__ accepts the value.
TagNameValid(value) ==
    LET cleaned == Lower(Strip(value))
    IN  /\ Strip(value) # <<>>
        /\ Len(cleaned) >= MinTagNameLen
        /\ Len(cleaned) <= MaxTagNameLen
        /\ \A i \in 1..Len(cleaned) : cleaned[i] \in TagNameChars
        /\ cleaned \notin ReservedTagNames

\* C19: every stored Tag name is trimmed and lowercase and passes the tag
\* name rules (2 to 100 characters, restricted characters, not reserved).
C19_TagNamesValid ==
    \A t \in tags : t.name = Lower(Strip(t.name)) /\ TagNameValid(t.name)
(* ======================= claims: contribution count =================== *)
\* The creates of the author that have succeeded.
CreatesDone(a) ==
    {t \in Threads : /\ threads[t].pc = "done" /\ threads[t].out = "ok"
                     /\ threads[t].args.author = a}

\* C17: once the creates have ended, the author's contribution_count is its
\* value beforehand (0) plus the number of the author's creates that succeeded.
C17_ContributionCount ==
    (\A t \in Threads : Finished(t))
    => \A a \in Users : contrib[a] = Cardinality(CreatesDone(a))
(* ======================== claims: concurrent add_tag ================== *)
\* C11: when add_tag calls with the same normalized name run concurrently on
\* entries of one world, afterwards exactly one Tag of that name and world
\* exists and every call has returned an association with that Tag.
C11_ConcurrentAddTag ==
    (\A t \in Threads : threads[t].pc = "done" /\ threads[t].args.name # <<>>)
    => \A t \in Threads :
          LET a == threads[t].args
          IN  /\ Cardinality(TagsNamed(a.name, a.world)) = 1
              /\ threads[t].out = "ok"
              /\ \E ct \in contentTags, tg \in TagsNamed(a.name, a.world) :
                    ct.id = threads[t].val /\ ct.pk = a.pk /\ ct.tag = tg.id
(* ======================= claims: purge and delete ===================== *)
\* C21: the purge of the maintenance command removes the row: afterwards the
\* entry is in neither the include-deleted view nor the default view.
C21_PurgeRemovesRow ==
    [][last'.op = "purge" => last'.pre[1] \notin AllKeys']_vars

DefaultLimit == 50
MaxLimit == 200

\* The usernames of the two users.
Username(u) == IF u = 1 THEN <<"A", "b">> ELSE <<"B", "a">>

\* <field>__icontains=sub
IContains(s, sub) ==
    \E i \in 0..(Len(s) - Len(sub)) :
        Lower(SubSeq(s, i + 1, i + Len(sub))) = Lower(sub)

\* content_models.items(): the kinds in the order of the dict.
KindOrder == <<"page", "character", "story">>

\* The filters of the request on the queryset of one kind, which starts from
\* model_class.objects.filter(world=world); an empty parameter adds no filter.
TimelineMatches(k, world, q) ==
    /\ k \in ActiveKeys
    /\ rows[k].world = world
    /\ (q.author # <<>> => IContains(Username(rows[k].author), q.author))
    /\ (q.start # NoTime => rows[k].created_at >= q.start)
    /\ (q.end # NoTime => rows[k].created_at <= q.end)
    /\ (q.search # <<>> => \/ IContains(rows[k].title, q.search)
                           \/ IContains(rows[k].content, q.search))
    /\ (CleanNames(q.tags) # {}
          => k \in GetContentByTagsResult(k.kind, world, q.tags, FALSE))

\* list(queryset) for one kind: nothing when the kind is not requested,
\* otherwise the matching rows in the order of Meta.ordering = ['-created_at'];
\* the database returns rows of one created_at in any order.
KindList(kind, world, q) ==
    LET found == IF q.kinds # {} /\ kind \notin q.kinds THEN {}
                 ELSE {k \in AllKeys : k.kind = kind /\ TimelineMatches(k, world, q)}
        n == Cardinality(found)
    IN  {sq \in [1..n -> found] :
            /\ \A i, j \in 1..n : i # j => sq[i] # sq[j]
            /\ \A i, j \in 1..n :
                  i < j => rows[sq[i]].created_at >= rows[sq[j]].created_at}

\* Mutant of TimelineSort: the merged list is not sorted.
TimelineSort_None(sq) == sq

\* all_content.sort(key=lambda x: x.created_at, reverse=True): a stable sort,
\* entries of one created_at keep the order they have in the list.
RECURSIVE TimelineSort(_)
TimelineSort(sq) ==
    IF sq = <<>> THEN <<>>
    ELSE LET x == Head(sq)
             rest == TimelineSort(Tail(sq))
             Newer(y) == rows[y].created_at > rows[x].created_at
             NotNewer(y) == ~Newer(y)
         IN  SelectSeq(rest, Newer) \o <<x>> \o SelectSeq(rest, NotNewer)

\* all_content[offset:offset + limit]
Slice(sq, offset, limit) ==
    SubSeq(sq, offset + 1,
           IF offset + limit < Len(sq) THEN offset + limit ELSE Len(sq))

TimelineLimit(q) == IF q.limit < MaxLimit THEN q.limit ELSE MaxLimit

Timeline(world, q) ==
    /\ world \in worlds
    /\ \E pages \in KindList(KindOrder[1], world, q),
          characters \in KindList(KindOrder[2], world, q),
          stories \in KindList(KindOrder[3], world, q) :
          last' = Call("timeline", "ok",
                       Slice(TimelineSort(pages \o characters \o stories),
                             q.offset, TimelineLimit(q)),
                       <<[world |-> world, q |-> q]>>)
    /\ UNCHANGED <<now, threads, dbContent, dbTags, dbLinks, h>>

(* ------------------- the timeline: SpecTimeline ----------------------- *)
\* Entries of every kind are created as time passes, some are soft-deleted,
\* and the timeline of a world is requested with and without filters.
TimelineRows == 3

AllContent ==
    [kinds |-> {}, author |-> <<>>, tags |-> <<>>, start |-> NoTime,
     end |-> NoTime, search |-> <<>>, offset |-> 0, limit |-> DefaultLimit]

\* What the creates are given (all in world 1; world 2 stays empty).
TimelineInputs ==
    {[kind |-> "page", title |-> TFoo, author |-> 1],
     [kind |-> "page", title |-> TBar, author |-> 2],
     [kind |-> "character", title |-> TFoo, author |-> 2],
     [kind |-> "story", title |-> TBar, author |-> 1]}

TimelineQueries ==
    {AllContent,
     [AllContent EXCEPT !.kinds = {"page", "story"}],
     [AllContent EXCEPT !.author = <<"a", "b">>],
     [AllContent EXCEPT !.search = Tfoo],
     [AllContent EXCEPT !.start = 2],
     [AllContent EXCEPT !.end = 2],
     [AllContent EXCEPT !.tags = <<Nfantasy>>],
     [AllContent EXCEPT !.limit = 1],
     [AllContent EXCEPT !.limit = 1, !.offset = 1],
     [AllContent EXCEPT !.limit = MaxLimit + 1]}

NextTimeline ==
    \/ Tick
    \/ \E c \in TimelineInputs :
          /\ Cardinality(Inserted) < TimelineRows
          /\ Create(c.kind, c.title, BodyA, c.author, 1)
    \/ Get([kind |-> "page", id |-> 1])
    \/ SoftDelete(1)
    \/ \E q \in TimelineQueries : Timeline(1, q)
    \/ Timeline(2, AllContent)

SpecTimeline == Init /\ [][NextTimeline]_vars

(* ========================= claims: timeline =========================== *)
\* The entries the claim expects in the timeline of a world: not deleted, of
\* a requested kind, of that world, passing the filters of the request.
C23_Expected(world, q) ==
    {k \in AllKeys :
        /\ ~rows[k].is_deleted
        /\ (q.kinds = {} \/ k.kind \in q.kinds)
        /\ TimelineMatches(k, world, q)}

\* C23: the timeline holds only expected entries, none twice, created_at never
\* increasing along it; it is the page [offset, offset + limit) of all the
\* expected entries, newest first: the entry at place i has at most
\* offset + i - 1 expected entries strictly newer than it and at least
\* offset + i as new as it.
C23_TimelineNewestFirst ==
    last.op = "timeline" =>
        LET res == last.val
            q == last.pre[1].q
            exp == C23_Expected(last.pre[1].world, q)
            left == IF Cardinality(exp) > q.offset
                    THEN Cardinality(exp) - q.offset ELSE 0
            At(i) == rows[res[i]].created_at
        IN  /\ \A i \in DOMAIN res : res[i] \in exp
            /\ \A i, j \in DOMAIN res : i # j => res[i] # res[j]
            /\ \A i, j \in DOMAIN res : i < j => At(i) >= At(j)
            /\ Len(res) = (IF left < q.limit THEN left ELSE q.limit)
            /\ \A i \in DOMAIN res :
                  /\ Cardinality({e \in exp : rows[e].created_at > At(i)})
                        <= q.offset + i - 1
                  /\ Cardinality({e \in exp : rows[e].created_at >= At(i)})
                        >= q.offset + i

\* A page, a character and a story were created at strictly increasing times
\* and the timeline returned story, character, page.
C23_Witness ==
    LET p == [kind |-> "page", id |-> 1]
        c == [kind |-> "character", id |-> 1]
        s == [kind |-> "story", id |-> 1]
    IN  /\ last.op = "timeline"
        /\ last.pre[1].q = AllContent
        /\ last.val = <<s, c, p>>
        /\ rows[p].created_at < rows[c].created_at
        /\ rows[c].created_at < rows[s].created_at

\* C24: a timeline request repeated on the unchanged store returns the same
\* sequence, and the page that follows a page repeats none of its entries.
C24_TimelineDeterministic ==
    [][(last.op = "timeline" /\ last'.op = "timeline"
          /\ last'.pre[1].world = last.pre[1].world)
       => /\ last'.pre = last.pre => last'.val = last.val
          /\ (last'.pre[1].q = [last.pre[1].q EXCEPT
                                   !.offset = @ + last.pre[1].q.limit])
                => \A i \in DOMAIN last.val, j \in DOMAIN last'.val :
                      last.val[i] # last'.val[j]]_vars

(* ================== collaboration scores and reports ================== *)
\* content.get_linked_content() / content.get_content_linking_to_this()
LinkedContent(k) == Targets(LinkSeq({l \in links : l.from = k}))
LinkingContent(k) == Sources(LinkSeq({l \in links : l.to = k}))

\* ContentBase.get_tags: Tag.objects.filter(id__in=tag_ids)
GetTags(k) == {t \in tags : \E ct \in contentTags : ct.pk = k /\ ct.tag = t.id}

\* The entries of a list whose author is not the author of k.
OtherAuthored(sq, k) ==
    LET Other(x) == rows[x].author # rows[k].author
    IN  SelectSeq(sq, Other)

\* The authors of the entries of a list.
AuthorsOf(sq) == {rows[sq[i]].author : i \in DOMAIN sq}

\* ContentBaseSerializer.get_collaboration_info(obj), obj an entry the view
\* fetched through the default manager.
CollaborationInfo(k) ==
    LET linked_count == Len(LinkedContent(k))
        linking_count == Len(LinkingContent(k))
        tags_count == Cardinality(GetTags(k))
        referenced_authors == AuthorsOf(OtherAuthored(LinkedContent(k), k))
        referencing_authors == AuthorsOf(OtherAuthored(LinkingContent(k), k))
    IN  /\ k \in ActiveKeys
        /\ last' = Call("collaboration_info", "ok",
                        [links_to_count |-> linked_count,
                         linked_from_count |-> linking_count,
                         tags_count |-> tags_count,
                         is_collaborative |-> referenced_authors # {}
                                                 \/ referencing_authors # {},
                         collaboration_score |->
                             linked_count + linking_count + tags_count],
                        <<k>>)
        /\ UNCHANGED <<now, threads, dbContent, dbTags, dbLinks, h>>

\* ContentViewSetMixin.attribution_details: the collaboration metrics.
AttributionDetails(k) ==
    LET made == Len(OtherAuthored(LinkedContent(k), k))
        received == Len(OtherAuthored(LinkingContent(k), k))
    IN  /\ k \in ActiveKeys
        /\ last' = Call("attribution_details", "ok",
                        [total_references_made |-> Len(LinkedContent(k)),
                         total_references_received |-> Len(LinkingContent(k)),
                         cross_author_references_made |-> made,
                         cross_author_references_received |-> received,
                         collaboration_score |-> made + received,
                         is_collaborative |-> made > 0 \/ received > 0],
                        <<k>>)
        /\ UNCHANGED <<now, threads, dbContent, dbTags, dbLinks, h>>

\* The link rows counted as cross-author collaborations of a world: both ends
\* are fetched, are of the world and have different authors.
CrossAuthorLinks(w) ==
    {l \in links :
        /\ GenericGet(l.from) # <<>> /\ GenericGet(l.to) # <<>>
        /\ rows[l.from].world = w /\ rows[l.to].world = w
        /\ rows[l.from].author # rows[l.to].author}

\* WorldSerializer.get_collaboration_stats: total_links is the count of the
\* ContentLink rows whose source is of one of the content types.
CollaborationStats(w) ==
    /\ w \in worlds
    /\ last' = Call("collaboration_stats", "ok",
                    [total_content_links |-> Cardinality(links),
                     cross_author_collaborations |->
                         Cardinality(CrossAuthorLinks(w)),
                     total_tags_used |->
                         Cardinality({t \in tags : t.world = w})],
                    <<w>>)
    /\ UNCHANGED <<now, threads, dbContent, dbTags, dbLinks, h>>

\* 'high' if n >= 5 else 'medium' if n >= 2 else 'low'
CollaborationStrength(n) ==
    IF n >= 5 THEN "high" ELSE IF n >= 2 THEN "medium" ELSE "low"

\* The cross_references of the report: one for each entry of the world's
\* timeline and each entry of its get_linked_content() by another author.
CrossReferences(w) ==
    {l \in links :
        /\ l.from \in ActiveKeys /\ rows[l.from].world = w
        /\ GenericGet(l.to) # <<>>
        /\ rows[l.to].author # rows[l.from].author}

\* collaboration_pairs: the cross_references counted by the sorted pair of
\* their authors.
PairCount(w, a, b) ==
    Cardinality({l \in CrossReferences(w) :
                    {rows[l.from].author, rows[l.to].author} = {a, b}})

\* WorldViewSet.attribution_report: top_collaborations (there are never more
\* than five pairs of authors here, so the cut at five takes them all).
AttributionReport(w) ==
    /\ w \in worlds
    /\ last' = Call("attribution_report", "ok",
                    {[authors |-> {a, b},
                      reference_count |-> PairCount(w, a, b),
                      collaboration_strength |->
                          CollaborationStrength(PairCount(w, a, b))] :
                        <<a, b>> \in {x \in Users \X Users :
                                        x[1] < x[2] /\ PairCount(w, x[1], x[2]) > 0}},
                    <<w>>)
    /\ UNCHANGED <<now, threads, dbContent, dbTags, dbLinks, h>>

(* ------------------ scores and reports: SpecCollab -------------------- *)
\* Entries are linked and tagged, and the scores and reports are read.
\* The entries of world 1: two pages by author 1, a character by author 2.
CollabKeys == {k \in FixtureKeys : FixtureRow(k).world = 1}

NextCollab ==
    \/ \E k \in CollabKeys : Get(k)
    \/ \E t \in CollabKeys : LinkTo(Instance(t, rows[t]))
    \/ AddTag(Nfantasy)
    \/ \E k \in CollabKeys : CollaborationInfo(k)
    \/ \E k \in CollabKeys : AttributionDetails(k)
    \/ \E w \in WorldIds : CollaborationStats(w)
    \/ \E w \in WorldIds : AttributionReport(w)

SpecCollab == InitFixture /\ [][NextCollab]_vars

(* ================== claims: scores and reports ======================== *)
\* The entries linked with k in the given direction whose author is not the
\* author of k, each counted once.
C25_OtherTargets(k) ==
    {x \in AllKeys : /\ \E l \in links : l.from = k /\ l.to = x
                     /\ rows[x].author # rows[k].author}
C25_OtherSources(k) ==
    {x \in AllKeys : /\ \E l \in links : l.to = k /\ l.from = x
                     /\ rows[x].author # rows[k].author}

\* C25: the collaboration score reported for an entry is the number of its
\* distinct targets by other authors plus the number of its distinct sources
\* by other authors plus the number of its tags.
C25_CollaborationScore ==
    last.op \in {"collaboration_info", "attribution_details"} =>
        last.val.collaboration_score
            = Cardinality(C25_OtherTargets(last.pre[1]))
              + Cardinality(C25_OtherSources(last.pre[1]))
              + Cardinality(GetTags(last.pre[1]))

\* The linked pairs of entries of a world: two entries of the world with a
\* link row between them, in either direction.
C26_LinkedPairs(w) ==
    {pr \in SUBSET {k \in AllKeys : rows[k].world = w} :
        /\ Cardinality(pr) = 2
        /\ \E l \in links : {l.from, l.to} = pr}

\* C26: the total link count of a world's statistics is the number of linked
\* pairs of entries of that world.
C26_TotalLinksPerPair ==
    last.op = "collaboration_stats" =>
        last.val.total_content_links
            = Cardinality(C26_LinkedPairs(last.pre[1]))

\* The linked pairs of a world with one entry by each of two authors.
C27_SharedLinks(w, authors) ==
    {pr \in C26_LinkedPairs(w) : {rows[k].author : k \in pr} = authors}

\* C27: the strength label of a pair of authors is low under 2 shared links,
\* medium from 2 to 4, high from 5, a linked pair of entries counting once.
C27_StrengthLabel ==
    last.op = "attribution_report" =>
        \A e \in last.val :
            LET n == Cardinality(C27_SharedLinks(last.pre[1], e.authors))
            IN  e.collaboration_strength
                  = (IF n < 2 THEN "low" ELSE IF n <= 4 THEN "medium" ELSE "high")

(* ===================== claims: concurrent creates ===================== *)
\* C29: of two concurrent creates of one kind in one world with titles equal
\* ignoring case, at most one succeeds.
C29_OneCreateSucceeds ==
    \A t1, t2 \in Threads :
        (/\ t1 # t2
         /\ threads[t1].pc = "done" /\ threads[t2].pc = "done"
         /\ threads[t1].args.kind = threads[t2].args.kind
         /\ threads[t1].args.world = threads[t2].args.world
         /\ IExact(threads[t1].args.title, threads[t2].args.title))
        => ~(threads[t1].out = "ok" /\ threads[t2].out = "ok")

(* ============ concurrent link_to and unlink_from: SpecLinkRace ======== *)
(* ContentBase.link_to, step by step *)
\* The world check on the two instances and the get of the first
\* ContentLink.objects.get_or_create (the forward row).
LinkFwdGet(t, from, to) ==
    LET args == [op |-> "link_to", from |-> from, to |-> to]
        found == LinksFromTo(from, to)
    IN  /\ threads[t].pc = "idle"
        /\ from \in AllKeys /\ to \in AllKeys
        /\ threads' = [threads EXCEPT ![t] =
              IF rows[to].world # rows[from].world
              THEN [IdleThread EXCEPT !.pc = "done", !.args = args,
                                      !.out = "ValidationError"]
              ELSE IF found # {}
              THEN [IdleThread EXCEPT !.pc = "link_rev_get", !.args = args,
                                      !.loc = <<(CHOOSE l \in found : TRUE).id>>]
              ELSE [IdleThread EXCEPT !.pc = "link_fwd_clean", !.args = args]]
        /\ UNCHANGED <<now, dbContent, dbTags, dbLinks, h, last>>

\* create() of get_or_create: ContentLink.save runs full_clean, that is clean
\* and validate_unique, which queries the unique_together columns; its
\* ValidationError is not the IntegrityError get_or_create recovers from.
LinkFwdClean(t) ==
    LET a == threads[t].args
    IN  /\ threads[t].pc = "link_fwd_clean"
        /\ IF LinkCleanOk(a.from, a.to) /\ LinksFromTo(a.from, a.to) = {}
           THEN Goto(t, "link_fwd_insert", <<>>)
           ELSE Return(t, "ValidationError", NoVal)
        /\ UNCHANGED <<now, dbContent, dbTags, dbLinks, h, last>>

\* The INSERT of the forward row; on a unique violation get_or_create fetches
\* the row that is there.
LinkFwdInsert(t) ==
    LET a == threads[t].args
        found == LinksFromTo(a.from, a.to)
    IN  /\ threads[t].pc = "link_fwd_insert"
        /\ IF found # {}
           THEN /\ Goto(t, "link_rev_get", <<(CHOOSE l \in found : TRUE).id>>)
                /\ UNCHANGED dbLinks
           ELSE /\ nextLinkId <= MaxLinkId
                /\ links' = links \cup
                      {[id |-> nextLinkId, from |-> a.from, to |-> a.to]}
                /\ nextLinkId' = nextLinkId + 1
                /\ Goto(t, "link_rev_get", <<nextLinkId>>)
        /\ UNCHANGED <<now, dbContent, dbTags, h, last>>

\* The get of the second get_or_create (the reverse row); link_to returns the
\* forward row.
LinkRevGet(t) ==
    LET a == threads[t].args
    IN  /\ threads[t].pc = "link_rev_get"
        /\ IF LinksFromTo(a.to, a.from) # {}
           THEN Return(t, "ok", threads[t].loc[1])
           ELSE Goto(t, "link_rev_clean", threads[t].loc)
        /\ UNCHANGED <<now, dbContent, dbTags, dbLinks, h, last>>

LinkRevClean(t) ==
    LET a == threads[t].args
    IN  /\ threads[t].pc = "link_rev_clean"
        /\ IF LinkCleanOk(a.to, a.from) /\ LinksFromTo(a.to, a.from) = {}
           THEN Goto(t, "link_rev_insert", threads[t].loc)
           ELSE Return(t, "ValidationError", NoVal)
        /\ UNCHANGED <<now, dbContent, dbTags, dbLinks, h, last>>

LinkRevInsert(t) ==
    LET a == threads[t].args
    IN  /\ threads[t].pc = "link_rev_insert"
        /\ IF LinksFromTo(a.to, a.from) # {}
           THEN UNCHANGED dbLinks
           ELSE /\ nextLinkId <= MaxLinkId
                /\ links' = links \cup
                      {[id |-> nextLinkId, from |-> a.to, to |-> a.from]}
                /\ nextLinkId' = nextLinkId + 1
        /\ Return(t, "ok", threads[t].loc[1])
        /\ UNCHANGED <<now, dbContent, dbTags, h, last>>

(* ContentBase.unlink_from, step by step *)
\* ContentLink.objects.get of the forward row; DoesNotExist returns False.
UnlinkFwdGet(t, from, to) ==
    LET args == [op |-> "unlink_from", from |-> from, to |-> to]
        found == LinksFromTo(from, to)
    IN  /\ threads[t].pc = "idle"
        /\ from \in AllKeys /\ to \in AllKeys
        /\ threads' = [threads EXCEPT ![t] =
              IF found # {}
              THEN [IdleThread EXCEPT !.pc = "unlink_fwd_delete", !.args = args,
                                      !.loc = <<(CHOOSE l \in found : TRUE).id>>]
              ELSE [IdleThread EXCEPT !.pc = "done", !.args = args,
                                      !.out = "ok", !.val = FALSE]]
        /\ UNCHANGED <<now, dbContent, dbTags, dbLinks, h, last>>

\* forward_link.delete(): DELETE of the row with the id that was read.
UnlinkFwdDelete(t) ==
    /\ threads[t].pc = "unlink_fwd_delete"
    /\ links' = {l \in links : l.id # threads[t].loc[1]}
    /\ Goto(t, "unlink_rev_get", <<>>)
    /\ UNCHANGED <<now, dbContent, dbTags, nextLinkId, h, last>>

\* ContentLink.objects.get of the reverse row; DoesNotExist returns False.
UnlinkRevGet(t) ==
    LET a == threads[t].args
        found == LinksFromTo(a.to, a.from)
    IN  /\ threads[t].pc = "unlink_rev_get"
        /\ IF found # {}
           THEN Goto(t, "unlink_rev_delete", <<(CHOOSE l \in found : TRUE).id>>)
           ELSE Return(t, "ok", FALSE)
        /\ UNCHANGED <<now, dbContent, dbTags, dbLinks, h, last>>

\* reverse_link.delete(), then return True.
UnlinkRevDelete(t) ==
    /\ threads[t].pc = "unlink_rev_delete"
    /\ links' = {l \in links : l.id # threads[t].loc[1]}
    /\ Return(t, "ok", TRUE)
    /\ UNCHANGED <<now, dbContent, dbTags, nextLinkId, h, last>>

\* The page and the character of world 1 the concurrent calls work on.
RaceKeys == {[kind |-> "page", id |-> 1], [kind |-> "character", id |-> 1]}

\* The two entries are unlinked, or were linked by an earlier link_to.
InitLinkRace ==
    /\ now = 1
    /\ worlds = WorldIds
    /\ rows = [k \in FixtureKeys |-> FixtureRow(k)]
    /\ nextId = [kd \in Kinds |-> 3]
    /\ contrib = [u \in Users |-> 2]
    /\ tags = {}
    /\ contentTags = {}
    /\ \/ links = {} /\ nextLinkId = 1
       \/ /\ links = {[id |-> 1, from |-> [kind |-> "page", id |-> 1],
                                to |-> [kind |-> "character", id |-> 1]],
                      [id |-> 2, from |-> [kind |-> "character", id |-> 1],
                                to |-> [kind |-> "page", id |-> 1]]}
          /\ nextLinkId = 3
    /\ nextTagId = 1
    /\ nextContentTagId = 1
    /\ h = <<>>
    /\ last = Call("init", "ok", NoVal, NoPre)
    /\ threads = [t \in Threads |-> IdleThread]

NextLinkRace ==
    \E t \in Threads :
       \/ \E from, to \in RaceKeys : from # to /\ LinkFwdGet(t, from, to)
       \/ LinkFwdClean(t)
       \/ LinkFwdInsert(t)
       \/ LinkRevGet(t)
       \/ LinkRevClean(t)
       \/ LinkRevInsert(t)
       \/ \E from, to \in RaceKeys : from # to /\ UnlinkFwdGet(t, from, to)
       \/ UnlinkFwdDelete(t)
       \/ UnlinkRevGet(t)
       \/ UnlinkRevDelete(t)

SpecLinkRace == InitLinkRace /\ [][NextLinkRace]_vars

(* ============== claims: concurrent link_to and unlink_from ============ *)
\* C28: once every concurrent link_to and unlink_from call on a pair has
\* returned, both directed rows of the pair exist or neither does.
C28_BothRowsOrNeither ==
    (\A t \in Threads : threads[t].pc = "done")
    => \A a \in RaceKeys, b \in RaceKeys :
          LinksFromTo(a, b) # {} <=> LinksFromTo(b, a) # {}

(* ========================= WorldViewSet.search ======================== *)
\* The entries the search of a world finds for a query with no further
\* filters: the querysets start from model_class.objects.filter(world=world)
\* and keep the rows whose title or content contains the query.
SearchResult(world, query) ==
    {k \in ActiveKeys :
        /\ rows[k].world = world
        /\ \/ IContains(rows[k].title, Strip(query))
           \/ IContains(rows[k].content, Strip(query))}

\* GET search?q=: an empty query is answered with 400.
Search(world, query) ==
    /\ world \in worlds
    /\ IF Strip(query) = <<>>
       THEN last' = Call("search", "400", {}, <<[world |-> world, q |-> query]>>)
       ELSE last' = Call("search", "ok", SearchResult(world, query),
                         <<[world |-> world, q |-> query]>>)
    /\ UNCHANGED <<now, threads, dbContent, dbTags, dbLinks, h>>

(* ------------- reads of soft-deleted content: SpecReads --------------- *)
\* Entries of world 1 are linked and tagged, soft-deleted and restored, and
\* read through the timeline, the search, the tag lookup and the link lists.
ReadKeys == {[kind |-> "page", id |-> 1], [kind |-> "character", id |-> 1]}

NextReads ==
    \/ \E k \in ReadKeys : Get(k)
    \/ \E t \in ReadKeys : LinkTo(Instance(t, rows[t]))
    \/ AddTag(Nfantasy)
    \/ SoftDelete(1)
    \/ Restore
    \/ Timeline(1, AllContent)
    \/ \E q \in {Tfoo, NBlank} : Search(1, q)
    \/ \E kind \in {"page", "character"} :
          GetContentByTags(kind, 1, <<Nfantasy>>, FALSE)
    \/ GetLinkedContent
    \/ GetContentLinkingToThis

SpecReads == InitFixture /\ [][NextReads]_vars

(* =================== claims: soft-deleted content ===================== *)
\* C30: no read returns a soft-deleted entry: not the timeline, the search or
\* the tag lookup, and not the link lists of the entries linked to it.
C30_SoftDeletedHidden ==
    /\ last.op \in {"timeline", "get_linked_content", "get_content_linking_to_this"}
          => \A i \in DOMAIN last.val : ~rows[last.val[i]].is_deleted
    /\ last.op \in {"search", "get_content_by_tags"}
          => \A k \in last.val : ~rows[k].is_deleted
====
